---- MODULE Spec2Model ----
(***************************************************************************)
(* A model of src/listener.js: the Flatfile listener that normalises       *)
(* contact records (name casing, phone formatting, USA classification)     *)
(* and flags duplicate rows.                                               *)
(*                                                                         *)
(* JavaScript strings are sequences of one-character strings; characters   *)
(* outside ASCII are written as tokens ("U+26A0").  JavaScript values are  *)
(* records with a type tag, so that ===, truthiness, String(x) and the     *)
(* `x?.value || x` unwrapping can be modelled as the language defines      *)
(* them.                                                                   *)
(***************************************************************************)
EXTENDS Integers, Sequences, FiniteSets, TLC

(***************************************************************************)
(* Bounds of the model.                                                    *)
(***************************************************************************)
\* the longest run of digits in a generated phone input
MaxDigits == 12
\* the most records the sheet holds
MaxRecords == 2
\* the most events and jobs the platform raises on its own account
MaxTriggers == 1

(***************************************************************************)
(* Characters and strings.                                                 *)
(***************************************************************************)
DigitChars == <<"0", "1", "2", "3", "4", "5", "6", "7", "8", "9">>

\* \d of a JavaScript regular expression: the ASCII digits
IsDigit(c) == c \in {"0", "1", "2", "3", "4", "5", "6", "7", "8", "9"}

\* \s of a JavaScript regular expression (the ASCII members)
IsSpace(c) == c \in {" ", "\t", "\n", "\r"}

\* str.replace(/\D/g, "")
RECURSIVE StripNonDigits(_)
StripNonDigits(s) ==
  IF s = <<>> THEN <<>>
  ELSE IF IsDigit(Head(s)) THEN <<Head(s)>> \o StripNonDigits(Tail(s))
       ELSE StripNonDigits(Tail(s))

\* str.startsWith(prefix)
StartsWith(s, prefix) ==
  /\ Len(s) >= Len(prefix)
  /\ SubSeq(s, 1, Len(prefix)) = prefix

\* str.slice(from, to) with 0-based, end-exclusive indexes 0 <= from <= to
Slice(s, from, to) ==
  SubSeq(s, from + 1, IF to > Len(s) THEN Len(s) ELSE to)

\* s[i .. i+k-1] exist and are all digits
DigitsAt(s, i, k) ==
  /\ i + k - 1 <= Len(s)
  /\ \A j \in i..(i + k - 1) : IsDigit(s[j])

\* Number.prototype.toString for a non-negative integer
RECURSIVE NatToStr(_)
NatToStr(n) ==
  IF n < 10 THEN <<DigitChars[n + 1]>>
  ELSE NatToStr(n \div 10) \o <<DigitChars[(n % 10) + 1]>>

(***************************************************************************)
(* JavaScript values: undefined, null, strings, booleans, numbers, the     *)
(* wrapper object {value: v} of the record store, and an object whose      *)
(* toString property is not a function, such as {"toString": 1}.           *)
(***************************************************************************)
Undefined == [t |-> "undefined", w |-> "none", s |-> <<>>, b |-> FALSE, n |-> 0]
Null == [t |-> "null", w |-> "none", s |-> <<>>, b |-> FALSE, n |-> 0]
Unprintable == [t |-> "unprintable", w |-> "none", s |-> <<>>, b |-> FALSE, n |-> 0]
Str(s) == [t |-> "string", w |-> "none", s |-> s, b |-> FALSE, n |-> 0]
Bool(b) == [t |-> "boolean", w |-> "none", s |-> <<>>, b |-> b, n |-> 0]
Num(n) == [t |-> "number", w |-> "none", s |-> <<>>, b |-> FALSE, n |-> n]
\* the wrapper object {value: v}
Wrap(v) == [t |-> "object", w |-> v.t, s |-> v.s, b |-> v.b, n |-> v.n]
\* x.value of a wrapper object
ValueOf(x) == [t |-> x.w, w |-> "none", s |-> x.s, b |-> x.b, n |-> x.n]

\* ToBoolean: what `if (x)`, `!x` and `||` test
Truthy(x) ==
  CASE x.t = "undefined" -> FALSE
    [] x.t = "null" -> FALSE
    [] x.t = "string" -> x.s # <<>>
    [] x.t = "boolean" -> x.b
    [] x.t = "number" -> x.n # 0
    [] OTHER -> TRUE

ObjectObject ==
  <<"[", "o", "b", "j", "e", "c", "t", " ", "O", "b", "j", "e", "c", "t", "]">>

\* x.toString() and `${x}` raise a TypeError for this value
StringifyThrows(x) == x.t = "unprintable"

\* x.toString() and `${x}`, for a value they do not raise on
toString(x) ==
  CASE x.t = "undefined" -> <<"u", "n", "d", "e", "f", "i", "n", "e", "d">>
    [] x.t = "null" -> <<"n", "u", "l", "l">>
    [] x.t = "string" -> x.s
    [] x.t = "boolean" ->
         IF x.b THEN <<"t", "r", "u", "e">> ELSE <<"f", "a", "l", "s", "e">>
    [] x.t = "number" -> NatToStr(x.n)
    [] OTHER -> ObjectObject

\* the unwrapping written at every read of a field: `x?.value || x`
ReadField(x) ==
  IF x.t = "object" /\ Truthy(ValueOf(x)) THEN ValueOf(x) ELSE x

(***************************************************************************)
(* formatPhoneNumber                                                       *)
(***************************************************************************)
\* a 10-digit number: `+1 (${c.slice(0,3)}) ${c.slice(3,6)}-${c.slice(6)}`
FormatTenMissingSpace(c) ==
  <<"+", "1", "(">> \o Slice(c, 0, 3) \o <<")", " ">> \o Slice(c, 3, 6)
    \o <<"-">> \o Slice(c, 6, Len(c))

formatTenDigits(c) ==
  <<"+", "1", " ", "(">> \o Slice(c, 0, 3) \o <<")", " ">> \o Slice(c, 3, 6)
    \o <<"-">> \o Slice(c, 6, Len(c))

\* an 11-digit number starting with 1:
\* `+${c.slice(0,1)} (${c.slice(1,4)}) ${c.slice(4,7)}-${c.slice(7)}`
formatElevenDigits(c) ==
  <<"+">> \o Slice(c, 0, 1) \o <<" ", "(">> \o Slice(c, 1, 4) \o <<")", " ">>
    \o Slice(c, 4, 7) \o <<"-">> \o Slice(c, 7, Len(c))

\* formatPhoneNumber(phone); the result is a string
formatPhoneNumber(phone) ==
  IF ~Truthy(phone) THEN <<>>
  ELSE LET cleanPhone == StripNonDigits(toString(phone))
       IN IF Len(cleanPhone) = 10 THEN formatTenDigits(cleanPhone)
          ELSE IF Len(cleanPhone) = 11 /\ StartsWith(cleanPhone, <<"1">>)
               THEN formatElevenDigits(cleanPhone)
          ELSE IF StartsWith(toString(phone), <<"+">>) THEN toString(phone)
          ELSE <<"+">> \o cleanPhone

(***************************************************************************)
(* isUSANumber                                                             *)
(***************************************************************************)
\* /^\d{10}$/
MatchTenDigits(s) == Len(s) = 10 /\ DigitsAt(s, 1, 10)

\* /^\d{1}\s?\(\d{3}\)\s?\d{3}-\d{4}$/
MatchFormattedShape(s) ==
  /\ DigitsAt(s, 1, 1)
  /\ LET i == IF Len(s) >= 2 /\ IsSpace(s[2]) THEN 3 ELSE 2
     IN /\ Len(s) >= i + 4
        /\ s[i] = "("
        /\ DigitsAt(s, i + 1, 3)
        /\ s[i + 4] = ")"
        /\ LET j == IF Len(s) >= i + 5 /\ IsSpace(s[i + 5]) THEN i + 6 ELSE i + 5
           IN /\ DigitsAt(s, j, 3)
              /\ Len(s) = j + 7
              /\ s[j + 3] = "-"
              /\ DigitsAt(s, j + 4, 4)

\* lines 74-87: the classification by the stripped digit string
usaByDigits(phoneStr) ==
  LET cleanPhone == StripNonDigits(phoneStr)
  IN \/ Len(cleanPhone) = 10
     \/ Len(cleanPhone) = 11 /\ StartsWith(cleanPhone, <<"1">>)

\* isUSANumber(phone); the result is a boolean
isUSANumber(phone) ==
  IF ~Truthy(phone) THEN FALSE
  ELSE LET phoneStr == toString(phone)
           afterPlus1 == SubSeq(phoneStr, 3, Len(phoneStr))
       IN IF StartsWith(phoneStr, <<"+", "1", " ">>) THEN TRUE
          ELSE IF /\ StartsWith(phoneStr, <<"+", "1">>)
                  /\ Len(phoneStr) > 2
                  /\ IsDigit(phoneStr[3])
                  /\ (MatchTenDigits(afterPlus1) \/ MatchFormattedShape(afterPlus1))
               THEN TRUE
          ELSE IF /\ StartsWith(phoneStr, <<"+", "1">>)
                  /\ Len(phoneStr) > 2
                  /\ IsDigit(phoneStr[3])
                  /\ Len(afterPlus1) > 10
               THEN FALSE
          ELSE usaByDigits(phoneStr)

(***************************************************************************)
(* toNameCase                                                              *)
(***************************************************************************)
LowerLetters ==
  <<"a", "b", "c", "d", "e", "f", "g", "h", "i", "j", "k", "l", "m", "n", "o", "p", "q", "r", "s", "t", "u", "v", "w", "x", "y", "z">>

UpperLetters ==
  <<"A", "B", "C", "D", "E", "F", "G", "H", "I", "J", "K", "L", "M", "N", "O", "P", "Q", "R", "S", "T", "U", "V", "W", "X", "Y", "Z">>

UpperSet == {UpperLetters[i] : i \in 1..26}
LowerSet == {LowerLetters[i] : i \in 1..26}

\* the lower-case letter of each upper-case letter, and the reverse
LowerOf ==
  [c \in UpperSet |->
     LowerLetters[CHOOSE i \in 1..26 : UpperLetters[i] = c]]

UpperOf ==
  [c \in LowerSet |->
     UpperLetters[CHOOSE i \in 1..26 : LowerLetters[i] = c]]

\* String.prototype.toLowerCase / toUpperCase on one character; of the
\* letters outside ASCII: "U+00C9" and "U+00E9" are E with acute, upper and
\* lower case, and "U+212A" is the Kelvin sign, whose lower case is "k"
LowerChar(c) ==
  IF c \in UpperSet THEN LowerOf[c]
  ELSE IF c = "U+00C9" THEN "U+00E9"
  ELSE IF c = "U+212A" THEN "k"
  ELSE c

UpperChar(c) ==
  IF c \in LowerSet THEN UpperOf[c]
  ELSE IF c = "U+00E9" THEN "U+00C9"
  ELSE c

\* \w of a JavaScript regular expression without the u flag: [A-Za-z0-9_]
IsWordChar(c) ==
  \/ c \in LowerSet
  \/ c \in UpperSet
  \/ IsDigit(c)
  \/ c = "_"

ToLowerCase(s) == [i \in 1..Len(s) |-> LowerChar(s[i])]

\* str.replace(/\b\w/g, (letter) => letter.toUpperCase())
CapitalizeWordStarts(s) ==
  [i \in 1..Len(s) |->
     IF IsWordChar(s[i]) /\ (i = 1 \/ ~IsWordChar(s[i - 1]))
     THEN UpperChar(s[i]) ELSE s[i]]

\* a name casing without the `typeof name !== "string"` test
NameCaseOfAnything(name) ==
  IF ~Truthy(name) THEN <<>>
  ELSE CapitalizeWordStarts(ToLowerCase(toString(name)))

\* toNameCase(name); the result is a string
toNameCase(name) ==
  IF ~Truthy(name) \/ name.t # "string" THEN <<>>
  ELSE CapitalizeWordStarts(ToLowerCase(name.s))

(***************************************************************************)
(* The order of strings under Array.prototype.sort(): by UTF-16 code unit. *)
(***************************************************************************)
\* the printable ASCII characters, code 32 first (the grave accent as a token)
Ascii ==
  <<
     " ", "!", "\"", "#", "$", "%", "&", "'", "(", ")", "*", "+",
     ",", "-", ".", "/", "0", "1", "2", "3", "4", "5", "6", "7",
     "8", "9", ":", ";", "<", "=", ">", "?", "@", "A", "B", "C",
     "D", "E", "F", "G", "H", "I", "J", "K", "L", "M", "N", "O",
     "P", "Q", "R", "S", "T", "U", "V", "W", "X", "Y", "Z", "[",
     "\\", "]", "^", "_", "U+0060", "a", "b", "c", "d", "e", "f", "g",
     "h", "i", "j", "k", "l", "m", "n", "o", "p", "q", "r", "s",
     "t", "u", "v", "w", "x", "y", "z", "{", "|", "}", "~"
  >>

\* the code unit of each printable ASCII character
AsciiCode ==
  [c \in {Ascii[i] : i \in 1..Len(Ascii)} |->
     31 + (CHOOSE i \in 1..Len(Ascii) : Ascii[i] = c)]

\* the code unit of a character
CharCode(c) ==
  CASE c = "\t" -> 9
    [] c = "\n" -> 10
    [] c = "\r" -> 13
    [] c = "U+26A0" -> 9888
    [] c = "U+2705" -> 9989
    [] c = "U+FE0F" -> 65039
    [] OTHER -> AsciiCode[c]

\* a < b as sort() compares strings
RECURSIVE StrLess(_, _)
StrLess(a, b) ==
  IF b = <<>> THEN FALSE
  ELSE IF a = <<>> THEN TRUE
  ELSE IF Head(a) = Head(b) THEN StrLess(Tail(a), Tail(b))
  ELSE CharCode(Head(a)) < CharCode(Head(b))

\* insert x into the sorted list l, after the elements that are not greater
RECURSIVE InsertSorted(_, _)
InsertSorted(x, l) ==
  IF l = <<>> THEN <<x>>
  ELSE IF StrLess(x, Head(l)) THEN <<x>> \o l
  ELSE <<Head(l)>> \o InsertSorted(x, Tail(l))

\* a sort that leaves the list as it is
KeepOrder(l) == l

\* fieldValues.sort()
RECURSIVE SortStrings(_)
SortStrings(l) ==
  IF l = <<>> THEN <<>>
  ELSE InsertSorted(l[Len(l)], SortStrings(SubSeq(l, 1, Len(l) - 1)))

\* fieldValues.join(sep)
RECURSIVE Join(_, _)
Join(l, sep) ==
  IF l = <<>> THEN <<>>
  ELSE IF Len(l) = 1 THEN l[1]
  ELSE l[1] \o sep \o Join(Tail(l), sep)

(***************************************************************************)
(* Records.  record.values is an object: a list of entries [k, v] in       *)
(* insertion order, k a field key of the sheet and v a JavaScript value.   *)
(***************************************************************************)
\* the keys of the Contacts sheet, lines 137-168, as strings
KeyChars ==
  [firstName |-> <<"f", "i", "r", "s", "t", "N", "a", "m", "e">>,
   lastName |-> <<"l", "a", "s", "t", "N", "a", "m", "e">>,
   email |-> <<"e", "m", "a", "i", "l">>,
   phone |-> <<"p", "h", "o", "n", "e">>,
   isUSANumber |-> <<"i", "s", "U", "S", "A", "N", "u", "m", "b", "e", "r">>,
   duplicateStatus |-> <<"d", "u", "p", "l", "i", "c", "a", "t", "e", "S", "t", "a", "t", "u", "s">>]

\* values[key], undefined when the object has no such key
Get(values, key) ==
  IF \E i \in 1..Len(values) : values[i].k = key
  THEN values[CHOOSE i \in 1..Len(values) : values[i].k = key].v
  ELSE Undefined

\* values[key] = v: an existing key keeps its place, a new key is appended
Put(values, key, v) ==
  IF \E i \in 1..Len(values) : values[i].k = key
  THEN [i \in 1..Len(values) |->
          IF values[i].k = key THEN [k |-> key, v |-> v] ELSE values[i]]
  ELSE Append(values, [k |-> key, v |-> v])

(***************************************************************************)
(* createRowSignature                                                      *)
(***************************************************************************)
\* `${key}:${fieldValue}` with fieldValue = value?.value || value
SignaturePair(entry) ==
  KeyChars[entry.k] \o <<":">> \o toString(ReadField(entry.v))

\* createRowSignature(values); the result is a string
createRowSignature(values) ==
  Join(SortStrings([i \in 1..Len(values) |-> SignaturePair(values[i])]), <<"|">>)

(***************************************************************************)
(* formatRecords: the two passes over the fetched records.                 *)
(***************************************************************************)
\* const maxAttempts = 5
maxAttempts == 5

\* "<U+2705> Unique", the unique marker
UniqueMarker == <<"U+2705", " ", "U", "n", "i", "q", "u", "e">>

\* `<U+26A0><U+FE0F> Duplicate (${duplicateCount} total)`, the duplicate marker
DuplicateMarker(duplicateCount) ==
  <<"U+26A0", "U+FE0F", " ", "D", "u", "p", "l", "i", "c", "a", "t", "e", " ", "(">>
    \o NatToStr(duplicateCount) \o <<" ", "t", "o", "t", "a", "l", ")">>

\* first pass: signatures[i] is the signature of the i-th fetched record
RecordSignatures(records) ==
  [i \in 1..Len(records) |-> createRowSignature(records[i].values)]

\* rowSignatures.get(signature): the number of records with that signature
RowSignatureCount(signatures, signature) ==
  Cardinality({i \in 1..Len(signatures) : signatures[i] = signature})

\* recordSignatures.get(id): the signature set last for that id
RecordSignature(records, signatures, id) ==
  signatures[CHOOSE i \in 1..Len(records) :
               /\ records[i].id = id
               /\ \A j \in (i + 1)..Len(records) : records[j].id # id]

\* "Format first name" / "Format last name"
nameUpdate(values, key, recordUpdates) ==
  LET name == ReadField(Get(values, key))
  IN IF Truthy(name) /\ name.t = "string" /\ toNameCase(name) # name.s
     THEN Put(recordUpdates, key, Wrap(Str(toNameCase(name))))
     ELSE recordUpdates

\* "Format phone"; a TypeError raised by formatPhoneNumber(phone) is caught
\* and logged, and the phone is left as it is
phoneUpdate(values, recordUpdates) ==
  LET phone == ReadField(Get(values, "phone"))
  IN IF /\ Truthy(phone)
        /\ ~StringifyThrows(phone)
        /\ formatPhoneNumber(phone) # toString(phone)
     THEN Put(recordUpdates, "phone", Wrap(Str(formatPhoneNumber(phone))))
     ELSE recordUpdates

\* a flag written as a bare boolean
usaUpdateBare(values, recordUpdates) ==
  LET phone == ReadField(Get(values, "phone"))
      isUSA == Bool(isUSANumber(phone))
      currentUSAValue == ReadField(Get(values, "isUSANumber"))
  IN IF Truthy(phone) /\ isUSA # currentUSAValue
     THEN Put(recordUpdates, "isUSANumber", isUSA)
     ELSE recordUpdates

\* "Detect USA number"
usaUpdate(values, recordUpdates) ==
  LET phone == ReadField(Get(values, "phone"))
      isUSA == Bool(isUSANumber(phone))
      currentUSAValue == ReadField(Get(values, "isUSANumber"))
  IN IF Truthy(phone) /\ isUSA # currentUSAValue
     THEN Put(recordUpdates, "isUSANumber", Wrap(isUSA))
     ELSE recordUpdates

\* "Detect duplicates"
duplicateUpdate(records, signatures, record, recordUpdates) ==
  LET signature == RecordSignature(records, signatures, record.id)
      duplicateCount == RowSignatureCount(signatures, signature)
      currentDuplicateStatus == ReadField(Get(record.values, "duplicateStatus"))
      duplicateStatus == IF duplicateCount > 1
                         THEN DuplicateMarker(duplicateCount)
                         ELSE UniqueMarker
  IN IF signature # <<>> /\ Str(duplicateStatus) # currentDuplicateStatus
     THEN Put(recordUpdates, "duplicateStatus", Wrap(Str(duplicateStatus)))
     ELSE recordUpdates

\* the recordUpdates object built for one record by the second pass
RecordUpdates(records, signatures, record) ==
  duplicateUpdate(records, signatures, record,
    usaUpdate(record.values,
      phoneUpdate(record.values,
        nameUpdate(record.values, "lastName",
          nameUpdate(record.values, "firstName", <<>>)))))

\* both passes: the `updates` array, one {id, values} per record with updates
ComputeUpdates(records) ==
  LET signatures == RecordSignatures(records)
  IN SelectSeq([i \in 1..Len(records) |->
                  [id |-> records[i].id,
                   values |-> RecordUpdates(records, signatures, records[i])]],
               LAMBDA u : u.values # <<>>)

\* the first pass raises: `${key}:${fieldValue}` in createRowSignature
\* stringifies every field of every record, outside any inner try
FirstPassThrows(records) ==
  \E i \in 1..Len(records) :
    \E j \in 1..Len(records[i].values) :
      StringifyThrows(ReadField(records[i].values[j].v))

\* the second pass raises: isUSANumber(phone) calls phone.toString() outside
\* the try that guards formatPhoneNumber(phone)
SecondPassThrows(records) ==
  \E i \in 1..Len(records) :
    LET phone == ReadField(Get(records[i].values, "phone"))
    IN Truthy(phone) /\ StringifyThrows(phone)

\* error.message of the TypeError raised by stringifying such a value
TypeErrorText ==
  <<"C", "a", "n", "n", "o", "t", " ", "c", "o", "n", "v", "e", "r", "t", " ", "o", "b", "j", "e", "c", "t", " ", "t", "o", " ", "p", "r", "i", "m", "i", "t", "i", "v", "e", " ", "v", "a", "l", "u", "e">>

\* the records taken from a response: response.data.records, else
\* response.data when it is an array, else []
ExtractRecords(response) ==
  IF response.shape = "nested" THEN response.list
  ELSE IF response.shape = "flat" THEN response.list
  ELSE <<>>

\* a loop that breaks only on two records or more
BreaksOnSeveral(records) == Len(records) > 1

\* `if (records.length > 0) { ...; break; }`
BreaksLoop(records) == Len(records) > 0

(***************************************************************************)
(* The record store behind api.records.get and api.records.update.         *)
(***************************************************************************)
RECURSIVE MergeValues(_, _)
MergeValues(values, changes) ==
  IF changes = <<>> THEN values
  ELSE MergeValues(Put(values, Head(changes).k, Head(changes).v), Tail(changes))

\* api.records.update(sheetId, updates): each update's fields are written to
\* the record with its id
RECURSIVE ApplyUpdates(_, _)
ApplyUpdates(st, updates) ==
  IF updates = <<>> THEN st
  ELSE ApplyUpdates(
         [i \in 1..Len(st) |->
            IF st[i].id = Head(updates).id
            THEN [st[i] EXCEPT !.values = MergeValues(@, Head(updates).values)]
            ELSE st[i]],
         Tail(updates))

(***************************************************************************)
(* State.                                                                  *)
(***************************************************************************)
VARIABLES
  store,           \* the sheet's records, as the record store holds them
  run,             \* run[p]: the state of handler invocation p; of its fields
                   \* fetches, waits, waitedMs, carried, dataAttempt, updateCalls,
                   \* startStore and afterApplied only record what happened
  pendingUpdated,  \* records:updated events raised and not yet handled
  triggers,        \* events and jobs raised by the platform so far
  lastApplied,     \* the last run that fetched records applied a batch
  phIn,            \* the phone value under test
  phOut,           \* formatPhoneNumber(phIn)
  phOut2,          \* formatPhoneNumber(phOut)
  phUsa,           \* isUSANumber(phIn)
  phUsaOut,        \* isUSANumber(phOut)
  phPc,            \* the position of the phone test
  nmIn,            \* the name value under test
  nmOut,           \* toNameCase(nmIn)
  nmOut2,          \* toNameCase(nmOut)
  nmPc,            \* the position of the name test
  sgA,             \* a values object under test
  sgB,             \* a second values object, made from sgA
  sgKind,          \* how sgB was made from sgA
  sgOutA,          \* createRowSignature(sgA)
  sgOutB,          \* createRowSignature(sgB)
  sgPc             \* the position of the signature test

pipelineVars == <<store, run, pendingUpdated, triggers, lastApplied>>
phoneVars == <<phIn, phOut, phOut2, phUsa, phUsaOut, phPc>>
nameVars == <<nmIn, nmOut, nmOut2, nmPc>>
signatureVars == <<sgA, sgB, sgKind, sgOutA, sgOutB, sgPc>>
functionVars == <<phoneVars, nameVars, signatureVars>>
vars == <<store, run, pendingUpdated, triggers, lastApplied,
          phIn, phOut, phOut2, phUsa, phUsaOut, phPc,
          nmIn, nmOut, nmOut2, nmPc,
          sgA, sgB, sgKind, sgOutA, sgOutB, sgPc>>

\* the handler invocations in flight at once
Runs == {1}

\* the invocations in flight when two handlers run at once
ConcurrentRuns == {1, 2}

\* the topics the listener subscribes formatRecords to
EventTopics == {"records:created", "commit:created", "records:updated"}
JobTopic == "job:ready"

\* error.message of a store error
ErrorTexts == {<<"t", "i", "m", "e", "o", "u", "t">>, <<"4", "0", "9">>}

\* `❌ Formatting failed: ${error.message}`
FailMessage(message) ==
  <<"U+274C", " ", "F", "o", "r", "m", "a", "t", "t", "i", "n", "g", " ", "f", "a", "i", "l", "e", "d", ":", " ">>
    \o message

IdleRun ==
  [pc |-> "idle", trigger |-> "none", attempts |-> 0, fetches |-> 0,
   waits |-> 0, records |-> <<>>, carried |-> <<>>, dataAttempt |-> 0,
   waitedMs |-> 0,
   updates |-> <<>>, updateCalls |-> 0, error |-> <<>>, startStore |-> <<>>,
   afterApplied |-> FALSE, acked |-> FALSE, completed |-> FALSE,
   failed |-> FALSE, failMessage |-> <<>>]

(***************************************************************************)
(* The sheets the runs start from.                                         *)
(***************************************************************************)
UsRaw == <<"5", "5", "5", "1", "2", "3", "4", "5", "6", "7">>
Intl == <<"+", "4", "4", "2", "0">>

\* a values object with the sheet's keys in schema order, absent ones left out
Values(firstName, phone, isUSA, duplicateStatus) ==
  LET all == <<[k |-> "firstName", v |-> firstName],
               [k |-> "email", v |-> Wrap(Str(<<"a", "@", "b">>))],
               [k |-> "phone", v |-> phone],
               [k |-> "isUSANumber", v |-> isUSA],
               [k |-> "duplicateStatus", v |-> duplicateStatus]>>
  IN SelectSeq(all, LAMBDA e : e.v # Undefined)

SampleValues ==
  { \* a freshly imported row
    Values(Wrap(Str(<<"a", "l">>)), Wrap(Str(UsRaw)), Undefined, Undefined),
    \* a row already in canonical form
    Values(Wrap(Str(<<"A", "l">>)), Wrap(Str(formatTenDigits(UsRaw))),
           Wrap(Bool(TRUE)), Wrap(Str(UniqueMarker))),
    \* the same row without its duplicate status
    Values(Wrap(Str(<<"A", "l">>)), Wrap(Str(formatTenDigits(UsRaw))),
           Wrap(Bool(TRUE)), Undefined),
    \* an international number, not yet classified
    Values(Wrap(Str(<<"A", "l">>)), Wrap(Str(Intl)), Undefined, Undefined),
    \* bare scalars instead of wrappers
    Values(Str(<<"A", "l">>), Str(Intl), Bool(FALSE), Str(UniqueMarker)),
    \* empty cells and a stale duplicate marker
    Values(Wrap(Str(<<>>)), Wrap(Str(<<>>)), Undefined,
           Wrap(Str(DuplicateMarker(2)))),
    \* no phone
    Values(Wrap(Str(<<"A", "l">>)), Undefined, Undefined,
           Wrap(Str(UniqueMarker)))
  }

\* the sheets of n records, with ids 1..n
Sheets(n) ==
  { [i \in 1..n |-> [id |-> i, values |-> f[i]]] : f \in [1..n -> SampleValues] }

InitialSheets == UNION { Sheets(n) : n \in 1..MaxRecords }

PhoneIdle ==
  /\ phIn = Undefined
  /\ phOut = <<>>
  /\ phOut2 = <<>>
  /\ phUsa = FALSE
  /\ phUsaOut = FALSE
  /\ phPc = "off"

NameIdle ==
  /\ nmIn = Undefined
  /\ nmOut = <<>>
  /\ nmOut2 = <<>>
  /\ nmPc = "off"

SignatureIdle ==
  /\ sgA = <<>>
  /\ sgB = <<>>
  /\ sgKind = "none"
  /\ sgOutA = <<>>
  /\ sgOutB = <<>>
  /\ sgPc = "off"

PipelineIdle ==
  /\ store = <<>>
  /\ run = [p \in Runs |-> IdleRun]
  /\ pendingUpdated = 0
  /\ triggers = 0
  /\ lastApplied = FALSE

Init ==
  /\ store \in InitialSheets
  /\ run = [p \in Runs |-> IdleRun]
  /\ pendingUpdated = 0
  /\ triggers = 0
  /\ lastApplied = FALSE
  /\ PhoneIdle
  /\ NameIdle
  /\ SignatureIdle

(***************************************************************************)
(* The handlers.  A step runs a handler from one await to the next.        *)
(***************************************************************************)
\* a handler starts: formatRecords(sheetId) is entered, or api.jobs.ack awaited
Started(topic) ==
  [IdleRun EXCEPT !.pc = IF topic = JobTopic THEN "ack" ELSE "fetch",
                  !.trigger = topic,
                  !.startStore = store]

CanStart(p) == run[p].pc \in {"idle", "done"}

\* listener.on("records:created")
OnRecordsCreated(p) ==
  /\ CanStart(p)
  /\ triggers < MaxTriggers
  /\ triggers' = triggers + 1
  /\ run' = [run EXCEPT ![p] = Started("records:created")]
  /\ UNCHANGED <<store, pendingUpdated, lastApplied, functionVars>>

\* listener.on("commit:created")
OnCommitCreated(p) ==
  /\ CanStart(p)
  /\ triggers < MaxTriggers
  /\ triggers' = triggers + 1
  /\ run' = [run EXCEPT ![p] = Started("commit:created")]
  /\ UNCHANGED <<store, pendingUpdated, lastApplied, functionVars>>

\* listener.on("records:updated"): the event the store raises for an update
OnRecordsUpdated(p) ==
  /\ CanStart(p)
  /\ pendingUpdated > 0
  /\ pendingUpdated' = pendingUpdated - 1
  /\ run' = [run EXCEPT ![p] = Started("records:updated")]
  /\ UNCHANGED <<store, triggers, lastApplied, functionVars>>

\* listener.on("job:ready", {job: "workbook:formatDataActionForeground"})
OnJobReady(p) ==
  /\ CanStart(p)
  /\ triggers < MaxTriggers
  /\ triggers' = triggers + 1
  /\ run' = [run EXCEPT ![p] = Started(JobTopic)]
  /\ UNCHANGED <<store, pendingUpdated, lastApplied, functionVars>>

\* await api.jobs.ack(jobId, ...)
JobAck(p) ==
  /\ run[p].pc = "ack"
  /\ run' = [run EXCEPT ![p].pc = "fetch", ![p].acked = TRUE]
  /\ UNCHANGED <<store, pendingUpdated, triggers, lastApplied, functionVars>>

\* what api.records.get may answer: the sheet's records or none, in the
\* nested envelope, the top-level one, or neither
Responses ==
  { [shape |-> sh, list |-> l] :
      sh \in {"nested", "flat", "other"}, l \in {store, <<>>} }

\* the record list a response carries, whatever the code makes of it
Carried(response) ==
  IF response.shape \in {"nested", "flat"} THEN response.list ELSE <<>>

\* a loop whose exhaustion raises instead of returning
ExhaustionThrows(r) ==
  [r EXCEPT !.attempts = @ + 1,
            !.pc = IF r.attempts + 1 < maxAttempts THEN "wait" ELSE "threw"]

\* a loop that fetches again at once
NextAttemptNoWait(r) ==
  [r EXCEPT !.attempts = @ + 1,
            !.pc = IF r.attempts + 1 < maxAttempts THEN "fetch" ELSE "returned"]

\* the end of a loop turn that did not break: attempts++, then the wait, or
\* the loop ends and `records.length === 0` returns
NextAttempt(r) ==
  [r EXCEPT !.attempts = @ + 1,
            !.pc = IF r.attempts + 1 < maxAttempts THEN "wait" ELSE "returned"]

\* a catch that logs the error and does not throw it again
SwallowError(r, message) == [r EXCEPT !.pc = "returned", !.error = message]

\* an update call made with an empty batch too
ProcessedAlwaysSubmits(r) ==
  [r EXCEPT !.updates = ComputeUpdates(r.records), !.pc = "update"]

\* formatRecords' catch: console.error(...); throw error
CatchAndRethrow(r, message) == [r EXCEPT !.pc = "threw", !.error = message]

\* the loop broke with records: both passes run, then the update is awaited
\* or, with no updates, formatRecords returns; an error raised in a pass
\* reaches formatRecords' catch
Processed(r) ==
  IF FirstPassThrows(r.records) \/ SecondPassThrows(r.records)
  THEN CatchAndRethrow(r, TypeErrorText)
  ELSE LET updates == ComputeUpdates(r.records)
       IN [r EXCEPT !.updates = updates,
                    !.pc = IF Len(updates) > 0 THEN "update" ELSE "returned"]

\* what formatRecords takes from each response, next to the list it carried
Outcomes ==
  { [records |-> ExtractRecords(response), carried |-> Carried(response)] :
      response \in Responses }

\* await api.records.get(...) resolves
FetchResolves(p) ==
  /\ run[p].pc = "fetch"
  /\ \E outcome \in Outcomes :
       LET records == outcome.records
           r == [run[p] EXCEPT !.fetches = @ + 1,
                               !.records = records,
                               !.carried =
                                 IF outcome.carried # <<>>
                                 THEN outcome.carried ELSE @,
                               !.dataAttempt =
                                 IF @ = 0 /\ outcome.carried # <<>>
                                 THEN run[p].fetches + 1 ELSE @,
                               !.afterApplied =
                                 IF outcome.carried # <<>>
                                 THEN lastApplied ELSE @]
       IN /\ run' = [run EXCEPT ![p] =
                       IF BreaksLoop(records) THEN Processed(r)
                       ELSE NextAttempt(r)]
          /\ lastApplied' = IF BreaksLoop(records) /\ run'[p].pc = "returned"
                            THEN FALSE ELSE lastApplied
  /\ UNCHANGED <<store, pendingUpdated, triggers, functionVars>>

\* await api.records.get(...) rejects: caught and logged in the loop
FetchRejects(p) ==
  /\ run[p].pc = "fetch"
  /\ run' = [run EXCEPT ![p] = NextAttempt([run[p] EXCEPT !.fetches = @ + 1])]
  /\ UNCHANGED <<store, pendingUpdated, triggers, lastApplied, functionVars>>

\* the delay of setTimeout(resolve, 2000), in milliseconds
retryDelayMs == 2000

\* await new Promise((resolve) => setTimeout(resolve, 2000))
RetryWait(p) ==
  /\ run[p].pc = "wait"
  /\ run' = [run EXCEPT ![p].pc = "fetch", ![p].waits = @ + 1,
                        ![p].waitedMs = @ + retryDelayMs]
  /\ UNCHANGED <<store, pendingUpdated, triggers, lastApplied, functionVars>>

\* await api.records.update(sheetId, updates) resolves; the store raises
\* records:updated
UpdateResolves(p) ==
  /\ run[p].pc = "update"
  /\ store' = ApplyUpdates(store, run[p].updates)
  /\ pendingUpdated' = pendingUpdated + 1
  /\ lastApplied' = TRUE
  /\ run' = [run EXCEPT ![p].pc = "returned", ![p].updateCalls = @ + 1]
  /\ UNCHANGED <<triggers, functionVars>>


\* await api.records.update(...) rejects with an error
UpdateRejects(p) ==
  /\ run[p].pc = "update"
  /\ \E message \in ErrorTexts :
       run' = [run EXCEPT ![p] =
                 CatchAndRethrow([run[p] EXCEPT !.updateCalls = @ + 1], message)]
  /\ UNCHANGED <<store, pendingUpdated, triggers, lastApplied, functionVars>>

\* the job handler after formatRecords returned: api.jobs.complete
JobComplete(p) ==
  /\ run[p].trigger = JobTopic
  /\ run[p].pc = "returned"
  /\ run' = [run EXCEPT ![p].pc = "done", ![p].completed = TRUE]
  /\ UNCHANGED <<store, pendingUpdated, triggers, lastApplied, functionVars>>

\* the job handler's catch: api.jobs.fail with the error's message
JobFail(p) ==
  /\ run[p].trigger = JobTopic
  /\ run[p].pc = "threw"
  /\ run' = [run EXCEPT ![p].pc = "done", ![p].failed = TRUE,
                        ![p].failMessage = FailMessage(run[p].error)]
  /\ UNCHANGED <<store, pendingUpdated, triggers, lastApplied, functionVars>>

\* an event handler ends when its formatRecords call returns or throws
HandlerEnds(p) ==
  /\ run[p].trigger \in EventTopics
  /\ run[p].pc \in {"returned", "threw"}
  /\ run' = [run EXCEPT ![p].pc = "done"]
  /\ UNCHANGED <<store, pendingUpdated, triggers, lastApplied, functionVars>>

Next ==
  \E p \in Runs :
    \/ OnRecordsCreated(p)
    \/ OnCommitCreated(p)
    \/ OnRecordsUpdated(p)
    \/ OnJobReady(p)
    \/ JobAck(p)
    \/ FetchResolves(p)
    \/ FetchRejects(p)
    \/ RetryWait(p)
    \/ UpdateResolves(p)
    \/ UpdateRejects(p)
    \/ JobComplete(p)
    \/ JobFail(p)
    \/ HandlerEnds(p)

Spec == Init /\ [][Next]_vars

\* the event loop runs every handler that can run, and every awaited call
\* settles
FairSpec == Spec /\ WF_vars(Next)

(***************************************************************************)
(* The phone functions on their own: formatPhoneNumber and isUSANumber     *)
(* applied to generated phone values.                                      *)
(***************************************************************************)
\* the k-th digit of a generated digit string whose first digit is `first`
DigitOf(first, k) == IF k = 1 THEN first ELSE DigitChars[(k % 10) + 1]

\* the digits k..n of the string, plain
RECURSIVE PlainDigits(_, _, _)
PlainDigits(first, k, n) ==
  IF k > n THEN <<>>
  ELSE <<DigitOf(first, k)>> \o PlainDigits(first, k + 1, n)

\* n digits written plain, with hyphens after the third and sixth digit, or
\* as "D(DDD) DDD-DDDD..." (from eight digits on)
Body(first, n, style) ==
  IF style = "dashed" /\ n > 6
  THEN PlainDigits(first, 1, 3) \o <<"-">> \o PlainDigits(first, 4, 6)
         \o <<"-">> \o PlainDigits(first, 7, n)
  ELSE IF style = "paren" /\ n >= 8
  THEN PlainDigits(first, 1, 1) \o <<"(">> \o PlainDigits(first, 2, 4)
         \o <<")", " ">> \o PlainDigits(first, 5, 7) \o <<"-">>
         \o PlainDigits(first, 8, n)
  ELSE PlainDigits(first, 1, n)

PhonePrefixes ==
  {<<>>, <<"+">>, <<"+", "1">>, <<"+", "1", " ">>, <<"(">>, <<"+", "1", "-">>}

PhoneSuffixes == {<<>>, <<"x">>, <<" ", "x", "9">>}

PhoneStrings ==
  { prefix \o Body(first, n, style) \o suffix :
      prefix \in PhonePrefixes, first \in {"1", "4"}, n \in 0..MaxDigits,
      style \in {"plain", "dashed", "paren"}, suffix \in PhoneSuffixes }

\* phone values: strings, numbers and the absent value
PhoneInputs ==
  {Str(s) : s \in PhoneStrings}
    \cup {Num(0), Num(7), Num(2025550123), Undefined}

InitPhone ==
  /\ PipelineIdle
  /\ NameIdle
  /\ SignatureIdle
  /\ phIn \in PhoneInputs
  /\ phOut = <<>>
  /\ phOut2 = <<>>
  /\ phUsa = FALSE
  /\ phUsaOut = FALSE
  /\ phPc = "input"

\* formatted = formatPhoneNumber(phone)
PhoneFormat ==
  /\ phPc = "input"
  /\ phOut' = formatPhoneNumber(phIn)
  /\ phPc' = "formatted"
  /\ UNCHANGED <<pipelineVars, nameVars, signatureVars, phIn, phOut2, phUsa, phUsaOut>>

\* formatPhoneNumber applied to its own result, as the next run does
PhoneFormatAgain ==
  /\ phPc = "formatted"
  /\ phOut2' = formatPhoneNumber(Str(phOut))
  /\ phPc' = "reformatted"
  /\ UNCHANGED <<pipelineVars, nameVars, signatureVars, phIn, phOut, phUsa, phUsaOut>>

\* isUSA = isUSANumber(phone), for the value read and for the value written
PhoneClassify ==
  /\ phPc = "reformatted"
  /\ phUsa' = isUSANumber(phIn)
  /\ phUsaOut' = isUSANumber(Str(phOut))
  /\ phPc' = "classified"
  /\ UNCHANGED <<pipelineVars, nameVars, signatureVars, phIn, phOut, phOut2>>

NextPhone == PhoneFormat \/ PhoneFormatAgain \/ PhoneClassify

SpecPhone == InitPhone /\ [][NextPhone]_vars

(***************************************************************************)
(* Properties of the phone functions (checked under SpecPhone).            *)
(***************************************************************************)
\* "+1 (AAA) PPP-LLLL" from ten digits
NationalShape(d) ==
  <<"+", "1", " ", "(">> \o SubSeq(d, 1, 3) \o <<")", " ">> \o SubSeq(d, 4, 6)
    \o <<"-">> \o SubSeq(d, 7, 10)

\* the rule order of the phone-formatting rule as stated: a leading "+" first
StatedFormat(s) ==
  LET D == StripNonDigits(s)
  IN IF StartsWith(s, <<"+">>) THEN s
     ELSE IF Len(D) = 10 THEN NationalShape(D)
     ELSE IF Len(D) = 11 /\ D[1] = "1" THEN NationalShape(Tail(D))
     ELSE <<"+">> \o D

\* C8: for every non-empty phone value, formatPhoneNumber returns an input
\* that starts with "+" unchanged whatever its digit count, and otherwise
\* formats 10 digits and 11 digits starting with 1 as "+1 (AAA) PPP-LLLL"
\* and anything else as "+" followed by its digits.
C8_StatedRuleOrder ==
  (phPc # "input" /\ phPc # "off" /\ Truthy(phIn))
    => phOut = StatedFormat(toString(phIn))

\* the three-stage classification as stated: a string that starts with "+1"
\* and a digit is decided by the part after "+1" alone
StatedUSA(s) ==
  LET D == StripNonDigits(s)
      after == SubSeq(s, 3, Len(s))
  IN IF StartsWith(s, <<"+", "1", " ">>) THEN TRUE
     ELSE IF StartsWith(s, <<"+", "1">>) /\ Len(s) > 2 /\ IsDigit(s[3])
     THEN MatchTenDigits(after) \/ MatchFormattedShape(after)
     ELSE Len(D) = 10 \/ (Len(D) = 11 /\ D[1] = "1")

\* C9: isUSANumber is true for a string starting with "+1 "; for a string
\* starting with "+1" and a digit it is true exactly if the part after "+1"
\* is 10 digits or has the formatted shape; only other strings are classified
\* by their digit string (10 digits, or 11 starting with 1); it is false for
\* empty or absent input.
C9_StatedClassification ==
  phPc = "classified"
    => phUsa = (IF Truthy(phIn) THEN StatedUSA(toString(phIn)) ELSE FALSE)

\* C10: formatPhoneNumber(formatPhoneNumber(p)) = formatPhoneNumber(p) for
\* every phone value p, string or number.
C10_FormatIdempotent ==
  phPc \in {"reformatted", "classified"} => phOut2 = phOut

\* a raw value was formatted into the national shape and formatted again
C10_Witness ==
  /\ phPc = "reformatted"
  /\ phIn.t = "string"
  /\ ~StartsWith(phIn.s, <<"+">>)
  /\ Len(StripNonDigits(phIn.s)) = 10
  /\ phOut = NationalShape(StripNonDigits(phIn.s))
  /\ phOut # phIn.s

(***************************************************************************)
(* Properties of the pipeline (checked under Spec and FairSpec).           *)
(***************************************************************************)
\* a field's value read through the bare-or-wrapped forms: {value: v} is v
Unwrapped(x) == IF x.t = "object" THEN ValueOf(x) ELSE x

\* the record with identifier id among the fetched records
RecordOf(records, id) ==
  records[CHOOSE i \in 1..Len(records) : records[i].id = id]

\* run p fetched records and formatRecords has returned from them
Completed(p) ==
  /\ run[p].dataAttempt > 0
  /\ run[p].pc \in {"returned", "done"}
  /\ run[p].error = <<>>

\* C1: when the store holds R', the result of applying one run's updates to
\* R, a second run that fetches R' computes no update and makes no
\* batch-update call.
C1_SecondRunNoUpdate ==
  \A p \in Runs :
    run[p].afterApplied => (run[p].updates = <<>> /\ run[p].updateCalls = 0)

\* C2: with formatRecords run again after each of its own batch updates, and
\* no other edit, from some point on no run submits an update.
C2_RunsConverge == <>[](\A p \in Runs : run[p].pc # "update")

\* the field contents of a record apart from its duplicate status
ContentsOf(values) ==
  { <<values[i].k, Unwrapped(values[i].v)>> :
      i \in {j \in 1..Len(values) : values[j].k # "duplicateStatus"} }

\* the number of fetched records with the contents of `values`
SameContents(records, values) ==
  Cardinality({i \in 1..Len(records) :
                 ContentsOf(records[i].values) = ContentsOf(values)})

\* C3: after a run, each fetched record's duplicateStatus is the duplicate
\* marker with n when n > 1 records of the batch have its field contents
\* ignoring duplicateStatus, and the unique marker when it is the only one.
C3_DuplicatesIgnoreStatus ==
  \A p \in Runs :
    Completed(p) =>
      \A i \in 1..Len(run[p].records) :
        LET n == SameContents(run[p].records, run[p].records[i].values)
            now == RecordOf(store, run[p].records[i].id).values
        IN Unwrapped(Get(now, "duplicateStatus")) =
             Str(IF n > 1 THEN DuplicateMarker(n) ELSE UniqueMarker)

\* C4: every field entry of every submitted RecordUpdate carries a value that
\* differs from the field's stored value, a wrapped {value: v} counting as v.
C4_MinimalUpdates ==
  \A p \in Runs :
    run[p].pc = "update" =>
      \A u \in 1..Len(run[p].updates) :
        \A e \in 1..Len(run[p].updates[u].values) :
          LET entry == run[p].updates[u].values[e]
              stored == Get(RecordOf(run[p].records, run[p].updates[u].id).values,
                            entry.k)
          IN Unwrapped(entry.v) # Unwrapped(stored)

\* C5: a run fetches at most 5 times; once attempt k is the first to carry a
\* non-empty record list no further fetch is made, the run works on exactly
\* the records of attempt k, and what happened before k raises no error.
C5_FirstNonEmptyWins ==
  \A p \in Runs :
    /\ run[p].fetches <= 5
    /\ run[p].dataAttempt > 0 =>
         /\ run[p].fetches = run[p].dataAttempt
         /\ run[p].pc \in {"update", "returned", "threw", "done"}
         /\ run[p].records = run[p].carried
         /\ run[p].updates = ComputeUpdates(run[p].carried)
         /\ (run[p].error # <<>> \/ run[p].pc = "threw") => run[p].updateCalls = 1

\* the third attempt was the first with records, after two waits
C5_Witness ==
  \E p \in Runs :
    /\ run[p].dataAttempt = 3
    /\ run[p].waits = 2
    /\ run[p].pc = "update"
    /\ run[p].records = store

\* C6: when each of the 5 fetch attempts raised or carried no record,
\* formatRecords returns without raising, calls no batch update and leaves
\* the store as it was; the manual format job is then completed, not failed.
C6_ExhaustionIsNoFailure ==
  \A p \in Runs :
    (run[p].fetches = 5 /\ run[p].dataAttempt = 0) =>
      /\ run[p].pc \in {"returned", "done"}
      /\ run[p].error = <<>>
      /\ run[p].updateCalls = 0
      /\ store = run[p].startStore
      /\ (run[p].trigger = JobTopic /\ run[p].pc = "done") =>
           (run[p].completed /\ ~run[p].failed)

\* a format job whose five fetches all came back without records has ended
C6_Witness ==
  \E p \in Runs :
    /\ run[p].trigger = JobTopic
    /\ run[p].pc = "done"
    /\ run[p].fetches = 5
    /\ run[p].dataAttempt = 0
    /\ run[p].waits = 4
    /\ run[p].completed

\* sub occurs in s
Contains(s, sub) ==
  \E i \in 1..(Len(s) - Len(sub) + 1) : SubSeq(s, i, i + Len(sub) - 1) = sub

\* C7: when api.records.update fails, no second update call is made and the
\* error leaves formatRecords; the manual format job then calls api.jobs.fail
\* with a message containing the error's text, and not api.jobs.complete.
C7_RejectedUpdateIsFatal ==
  \A p \in Runs :
    run[p].error # <<>> =>
      /\ run[p].updateCalls = 1
      /\ run[p].pc \in {"threw", "done"}
      /\ (run[p].trigger = JobTopic /\ run[p].pc = "done") =>
           /\ run[p].failed
           /\ ~run[p].completed
           /\ Contains(run[p].failMessage, run[p].error)

\* a format job whose batch update was rejected has ended
C7_Witness ==
  \E p \in Runs :
    /\ run[p].trigger = JobTopic
    /\ run[p].pc = "done"
    /\ run[p].error \in ErrorTexts
    /\ run[p].failed
    /\ store = run[p].startStore

(***************************************************************************)
(* toNameCase on its own, applied to generated name values.                *)
(***************************************************************************)
MaxNameLen == 4

\* letters of both cases, an apostrophe, a hyphen, a space, a digit, and
\* letters outside ASCII
NameChars == {"a", "B", "'", "-", " ", "1", "U+00C9", "U+00E9", "U+212A"}

NameStrings == UNION { [1..n -> NameChars] : n \in 0..MaxNameLen }

\* name values: strings and values that are not strings
NameInputs ==
  {Str(s) : s \in NameStrings}
    \cup {Undefined, Null, Num(0), Num(7), Bool(TRUE), Bool(FALSE),
          Wrap(Str(<<"a", "l">>))}

InitName ==
  /\ PipelineIdle
  /\ PhoneIdle
  /\ SignatureIdle
  /\ nmIn \in NameInputs
  /\ nmOut = <<>>
  /\ nmOut2 = <<>>
  /\ nmPc = "input"

\* formatted = toNameCase(name)
NameCase ==
  /\ nmPc = "input"
  /\ nmOut' = toNameCase(nmIn)
  /\ nmPc' = "cased"
  /\ UNCHANGED <<pipelineVars, phoneVars, signatureVars, nmIn, nmOut2>>

\* toNameCase applied to its own result, as the next run does
NameCaseAgain ==
  /\ nmPc = "cased"
  /\ nmOut2' = toNameCase(Str(nmOut))
  /\ nmPc' = "recased"
  /\ UNCHANGED <<pipelineVars, phoneVars, signatureVars, nmIn, nmOut>>

NextName == NameCase \/ NameCaseAgain

SpecName == InitName /\ [][NextName]_vars

\* C11: casing a name twice gives what casing it once gives, for every
\* string, with apostrophes, hyphens, digits and letters outside ASCII; the
\* empty string and every value that is not a string give the empty string.
C11_NameCaseIdempotent ==
  nmPc = "recased" =>
    /\ nmOut2 = nmOut
    /\ (nmIn.t # "string" \/ nmIn.s = <<>>) => nmOut = <<>>

\* O'Brien-like input with a letter outside ASCII has been cased twice
C11_Witness ==
  /\ nmPc = "recased"
  /\ nmIn = Str(<<"a", "'", "B", "U+00C9">>)
  /\ nmOut = <<"A", "'", "B", "U+00E9">>

(***************************************************************************)
(* createRowSignature on its own, applied to two generated values objects: *)
(* the second differs from the first in field values, in insertion order,  *)
(* or in the form (bare or wrapped) of one field.                          *)
(***************************************************************************)
MaxFields == 3

\* the keys of the Contacts sheet in schema order, lines 137-168
SchemaKeys ==
  <<"firstName", "lastName", "email", "phone", "isUSANumber", "duplicateStatus">>

\* the values object with the first Len(f) schema keys, the i-th holding f[i]
ObjectOf(f) == [i \in 1..Len(f) |-> [k |-> SchemaKeys[i], v |-> f[i]]]

\* field values: the falsy wrapped values, null and the text "null", a text
\* bare and wrapped, a number and the same digits as text, and texts with the
\* signature's separators in them
SignatureValues ==
  { Wrap(Str(<<>>)), Wrap(Bool(FALSE)), Wrap(Null), Wrap(Num(0)),
    Null, Str(<<"n", "u", "l", "l">>),
    Wrap(Str(<<"a">>)), Str(<<"a">>),
    Num(5), Str(<<"5">>),
    Wrap(Str(<<"a", "|", "l", "a", "s", "t", "N", "a", "m", "e", ":", "b">>)),
    Wrap(Str(<<"b", "|", "l", "a", "s", "t", "N", "a", "m", "e", ":", "b">>)),
    Wrap(Str(<<"b">>)) }

\* the values permuted and rewrapped objects are made of
OrderValues ==
  { Wrap(Str(<<"a">>)), Str(<<"b">>), Wrap(Str(<<>>)), Num(5) }

\* the field's value, whether stored bare or in a wrapper
FieldValue(x) == IF x.t = "object" THEN ValueOf(x) ELSE x

\* two objects with the same two keys that differ in some field's value
ChangedPairs ==
  { [a |-> ObjectOf(fg[1]), b |-> ObjectOf(fg[2]), kind |-> "changed"] :
      fg \in { x \in [1..2 -> SignatureValues] \X [1..2 -> SignatureValues] :
                 \E i \in 1..2 : FieldValue(x[1][i]) # FieldValue(x[2][i]) } }

InsertionOrders(n) ==
  { f \in [1..n -> 1..n] : \A i, j \in 1..n : f[i] = f[j] => i = j }

\* an object and the same fields inserted in another order
PermutedPairs ==
  UNION { { [a |-> ObjectOf(f),
             b |-> [i \in 1..n |-> ObjectOf(f)[perm[i]]],
             kind |-> "permuted"] :
              f \in [1..n -> OrderValues], perm \in InsertionOrders(n) } :
          n \in 0..MaxFields }

\* the other form of a truthy field value: wrapped for bare, bare for wrapped
OtherForm(x) == IF x.t = "object" THEN ValueOf(x) ELSE Wrap(x)

\* an object and the same object with one truthy field in its other form
RewrappedPairs ==
  UNION { UNION { { [a |-> ObjectOf(f),
                     b |-> ObjectOf([f EXCEPT ![i] = OtherForm(f[i])]),
                     kind |-> "rewrapped"] :
                      f \in { h \in [1..n -> OrderValues] :
                                Truthy(FieldValue(h[i])) } } :
                  i \in 1..n } :
          n \in 1..MaxFields }

SignatureInputs == ChangedPairs \cup PermutedPairs \cup RewrappedPairs

InitSignature ==
  /\ PipelineIdle
  /\ PhoneIdle
  /\ NameIdle
  /\ \E pair \in SignatureInputs :
       /\ sgA = pair.a
       /\ sgB = pair.b
       /\ sgKind = pair.kind
  /\ sgOutA = <<>>
  /\ sgOutB = <<>>
  /\ sgPc = "input"

\* signature = createRowSignature(record.values), for the first object
SignFirst ==
  /\ sgPc = "input"
  /\ sgOutA' = createRowSignature(sgA)
  /\ sgPc' = "first"
  /\ UNCHANGED <<pipelineVars, phoneVars, nameVars, sgA, sgB, sgKind, sgOutB>>

\* and for the second
SignSecond ==
  /\ sgPc = "first"
  /\ sgOutB' = createRowSignature(sgB)
  /\ sgPc' = "signed"
  /\ UNCHANGED <<pipelineVars, phoneVars, nameVars, sgA, sgB, sgKind, sgOutA>>

NextSignature == SignFirst \/ SignSecond

SpecSignature == InitSignature /\ [][NextSignature]_vars

\* C12: two values objects that differ in the value of some field get
\* different signatures; this includes objects that differ only in a falsy
\* wrapped value, null against the text "null", and values with ':' and '|'.
C12_SignatureSensitive ==
  (sgPc = "signed" /\ sgKind = "changed") => sgOutA # sgOutB

InitConcurrent ==
  /\ store \in InitialSheets
  /\ run = [p \in ConcurrentRuns |->
              Started(IF p = 1 THEN "records:created" ELSE "commit:created")]
  /\ pendingUpdated = 0
  /\ triggers = 2
  /\ lastApplied = FALSE
  /\ PhoneIdle
  /\ NameIdle
  /\ SignatureIdle

NextConcurrent ==
  \E p \in ConcurrentRuns :
    \/ FetchResolves(p)
    \/ FetchRejects(p)
    \/ RetryWait(p)
    \/ UpdateResolves(p)
    \/ UpdateRejects(p)
    \/ HandlerEnds(p)

SpecConcurrent == InitConcurrent /\ [][NextConcurrent]_vars

\* the store after two runs on `records`, the second starting when the first
\* has ended
SequentialResult(records) ==
  LET first == ApplyUpdates(records, ComputeUpdates(records))
  IN ApplyUpdates(first, ComputeUpdates(first))

\* C14: when two runs interleave, each fetching before or after the other's
\* update, and both have ended without an error, the store holds what the
\* two runs one after the other would have left, and a further run on it
\* would submit no update.
C14_ConcurrentRunsConverge ==
  (\A p \in ConcurrentRuns : Completed(p) /\ run[p].pc = "done") =>
    /\ store = SequentialResult(run[1].startStore)
    /\ ComputeUpdates(store) = <<>>

(***************************************************************************)
(* One handler invocation on its own: formatRecords entered once, from any *)
(* of the four handlers, on every sheet.                                   *)
(***************************************************************************)
InitRun ==
  /\ store \in InitialSheets
  /\ \E topic \in EventTopics \cup {JobTopic} :
       run = [p \in Runs |-> Started(topic)]
  /\ pendingUpdated = 0
  /\ triggers = 1
  /\ lastApplied = FALSE
  /\ PhoneIdle
  /\ NameIdle
  /\ SignatureIdle

NextRun ==
  \E p \in Runs :
    \/ JobAck(p)
    \/ FetchResolves(p)
    \/ FetchRejects(p)
    \/ RetryWait(p)
    \/ UpdateResolves(p)
    \/ UpdateRejects(p)
    \/ JobComplete(p)
    \/ JobFail(p)
    \/ HandlerEnds(p)

SpecRun == InitRun /\ [][NextRun]_vars

\* the positions in the fetched list of the records with a non-empty diff
ChangedRecords(records) ==
  { i \in 1..Len(records) :
      RecordUpdates(records, RecordSignatures(records), records[i]) # <<>> }

\* the position of the record with identifier id in the fetched list
PositionOf(records, id) == CHOOSE i \in 1..Len(records) : records[i].id = id

\* C15: a run calls api.records.update at most once, and only when the fetch
\* loop has ended with records and the diff of every fetched record is
\* computed; the call is made exactly when some record has a non-empty diff,
\* with one entry per changed record, in fetched order, and is not made when
\* no record changed.
C15_OneBatchPerRun ==
  \A p \in Runs :
    LET r == run[p]
        changed == ChangedRecords(r.records)
    IN /\ r.updateCalls <= 1
       /\ (r.pc = "update" \/ r.updateCalls = 1) =>
            /\ r.dataAttempt > 0
            /\ r.records = r.carried
       /\ r.pc = "update" =>
            /\ r.updateCalls = 0
            /\ changed # {}
            /\ Len(r.updates) = Cardinality(changed)
            /\ \A j \in 1..Len(r.updates) :
                 /\ PositionOf(r.records, r.updates[j].id) \in changed
                 /\ r.updates[j].values # <<>>
                 /\ \A k \in 1..(j - 1) :
                      PositionOf(r.records, r.updates[k].id)
                        < PositionOf(r.records, r.updates[j].id)
       /\ (r.pc = "returned" /\ r.dataAttempt > 0) =>
            (r.updateCalls = 1 <=> changed # {})
       /\ (r.dataAttempt = 0 /\ r.pc # "update") => r.updateCalls = 0

\* a batch of two entries has been submitted for two changed records
C15_Witness ==
  \E p \in Runs :
    /\ run[p].pc = "returned"
    /\ run[p].updateCalls = 1
    /\ Len(run[p].updates) = 2
    /\ run[p].updates[1].id = 1
    /\ run[p].updates[2].id = 2

\* the fields formatRecords writes
WrittenKeys ==
  {"firstName", "lastName", "phone", "isUSANumber", "duplicateStatus"}

\* the keys of a values object
KeysOf(values) == { values[i].k : i \in 1..Len(values) }

\* C16: every entry of a submitted batch names a fetched record and holds
\* only fields among firstName, lastName, phone, isUSANumber and
\* duplicateStatus, each as a wrapper {value: v}; email and any other field
\* are not written, and no record is added or removed.
C16_UpdateFrame ==
  \A p \in Runs :
    LET r == run[p]
    IN /\ \A j \in 1..Len(r.updates) :
            /\ \E i \in 1..Len(r.records) : r.records[i].id = r.updates[j].id
            /\ \A e \in 1..Len(r.updates[j].values) :
                 /\ r.updates[j].values[e].k \in WrittenKeys
                 /\ r.updates[j].values[e].v.t = "object"
                 /\ r.updates[j].values[e].v = Wrap(ValueOf(r.updates[j].values[e].v))
       /\ r.pc # "idle" =>
            /\ Len(store) = Len(r.startStore)
            /\ \A i \in 1..Len(store) :
                 /\ store[i].id = r.startStore[i].id
                 /\ KeysOf(store[i].values)
                      \subseteq KeysOf(r.startStore[i].values) \cup WrittenKeys
                 /\ \A key \in KeysOf(r.startStore[i].values) \ WrittenKeys :
                      Get(store[i].values, key) = Get(r.startStore[i].values, key)

\* a batch that wrote a name, a phone, a flag and a status has been applied
C16_Witness ==
  \E p \in Runs :
    /\ run[p].updateCalls = 1
    /\ run[p].error = <<>>
    /\ \E j \in 1..Len(run[p].updates) :
         KeysOf(run[p].updates[j].values)
           = {"firstName", "phone", "isUSANumber", "duplicateStatus"}
    /\ store # run[p].startStore

\* the classification of the phone a record holds
PhoneIsUSA(values) == Bool(isUSANumber(Unwrapped(Get(values, "phone"))))

\* C17: after a run, every record's isUSANumber is the classification of its
\* phone; this holds for a record that had no isUSANumber and for a record
\* whose phone is empty or absent, which is classified false.
C17_FlagAlwaysWritten ==
  \A p \in Runs :
    (Completed(p) /\ run[p].pc = "returned") =>
      \A i \in 1..Len(store) :
        Unwrapped(Get(store[i].values, "isUSANumber")) = PhoneIsUSA(store[i].values)

\* C19: a run waits once, for 2 seconds, between two consecutive fetch
\* attempts, after a failed attempt as after an empty one; it does not wait
\* after the attempt that carried records nor after the fifth attempt, so it
\* waits at most 4 times.
C19_RetryWaits ==
  \A p \in Runs :
    LET r == run[p]
    IN /\ r.waits <= 4
       /\ r.waitedMs = 2000 * r.waits
       /\ r.pc = "fetch" => r.waits = r.fetches
       /\ r.pc = "wait" =>
            /\ r.waits = r.fetches - 1
            /\ r.fetches < 5
            /\ r.dataAttempt = 0
       /\ r.fetches > 0 /\ r.pc \in {"update", "returned", "threw", "done"} =>
            /\ r.waits = r.fetches - 1
            /\ r.dataAttempt > 0 \/ r.fetches = 5

\* five attempts without records were made, with the four waits between them
C19_Witness ==
  \E p \in Runs :
    /\ run[p].fetches = 5
    /\ run[p].waits = 4
    /\ run[p].waitedMs = 8000
    /\ run[p].dataAttempt = 0
    /\ run[p].pc = "returned"

(***************************************************************************)
(* Sheets with a phone that cannot be formatted: the cell holds an object  *)
(* whose toString is not a function, so phone.toString() and `${phone}`    *)
(* raise a TypeError.                                                      *)
(***************************************************************************)
\* a row with a name to case and such a phone
UnformattableRow ==
  Values(Wrap(Str(<<"a", "l">>)), Wrap(Unprintable), Undefined, Undefined)

UnformattableSheets ==
  UNION { { [i \in 1..n |-> [id |-> i, values |-> f[i]]] :
              f \in [1..n -> SampleValues \cup {UnformattableRow}] } :
          n \in 1..MaxRecords }

InitUnformattable ==
  /\ store \in UnformattableSheets
  /\ run = [p \in Runs |-> IdleRun]
  /\ pendingUpdated = 0
  /\ triggers = 0
  /\ lastApplied = FALSE
  /\ PhoneIdle
  /\ NameIdle
  /\ SignatureIdle

SpecUnformattable == InitUnformattable /\ [][Next]_vars

HasUnformattablePhone(values) ==
  StringifyThrows(Unwrapped(Get(values, "phone")))

\* C18: when the phone of a fetched record cannot be formatted, formatRecords
\* does not raise for it; the batch leaves that record's phone out, and still
\* holds its name casing and its duplicate status, and the other records are
\* processed as well.
C18_UnformattablePhoneSkipped ==
  \A p \in Runs :
    LET r == run[p]
        bad == { i \in 1..Len(r.records) :
                   HasUnformattablePhone(r.records[i].values) }
    IN (r.dataAttempt > 0 /\ bad # {}) =>
         /\ r.pc = "threw" => r.updateCalls = 1
         /\ r.updates # <<>>
         /\ \A i \in bad :
              \E j \in 1..Len(r.updates) :
                /\ r.updates[j].id = r.records[i].id
                /\ Get(r.updates[j].values, "firstName")
                     = Wrap(Str(toNameCase(Unwrapped(Get(r.records[i].values, "firstName")))))
                /\ "duplicateStatus" \in KeysOf(r.updates[j].values)
                /\ "phone" \notin KeysOf(r.updates[j].values)
         /\ \A i \in (1..Len(r.records)) \ bad :
              PhoneIsUSA(r.records[i].values).b =>
                \E j \in 1..Len(r.updates) : r.updates[j].id = r.records[i].id

\* C20: for every non-empty phone value, the formatted value is classified
\* as the value itself is.
C20_ClassificationStable ==
  (phPc = "classified" /\ Truthy(phIn)) => phUsaOut = phUsa

====
